---- MODULE Spec2Model ----
(***************************************************************************)
(* Model of the bipack_ru codec: the BipackSink encoder (bipack_sink.rs),  *)
(* the BipackSource decoder with its SliceSource implementation            *)
(* (bipack_source.rs) and the bipack!/BiPackable/BiUnpackable helpers      *)
(* (bipack.rs).                                                            *)
(*                                                                         *)
(* TLC integers are 32 bits wide, so Rust's u16/u32/u64 values are kept as *)
(* bit vectors: a value of width w is a sequence of w bits, least          *)
(* significant first (bit i of the value is element i+1).  Bytes stored in *)
(* a Vec<u8> or a slice are integers 0..255.  Signed values are            *)
(* mathematical integers [neg, mag]; the `as` casts between signed and     *)
(* unsigned are the two's-complement conversions.                          *)
(***************************************************************************)
EXTENDS Integers, Sequences, FiniteSets, TLC

\* ------------------------------------------------------------------------
\* Bit-vector arithmetic (Rust's fixed-width unsigned integers)
\* ------------------------------------------------------------------------

\* 2^n for n in 0..30
Pow2(n) ==
    <<1, 2, 4, 8, 16, 32, 64, 128, 256, 512, 1024, 2048, 4096, 8192, 16384,
      32768, 65536, 131072, 262144, 524288, 1048576, 2097152, 4194304,
      8388608, 16777216, 33554432, 67108864, 134217728, 268435456,
      536870912, 1073741824>>[n + 1]

\* bit i (0 = least significant) of the bit vector v
BitAt(v, i) == IF i + 1 \in DOMAIN v THEN v[i + 1] ELSE 0

Zero(w) == [i \in 1..w |-> 0]

\* the w-bit value of the small non-negative integer n (n < 2^31)
FromInt(n, w) == [i \in 1..w |-> IF i <= 31 THEN (n \div Pow2(i - 1)) % 2 ELSE 0]

\* v >> n and v << n on a value of fixed width (bits shifted out are lost)
Shr(v, n) == [i \in 1..Len(v) |-> BitAt(v, i - 1 + n)]
Shl(v, n) == [i \in 1..Len(v) |-> IF i - 1 >= n THEN v[i - n] ELSE 0]

BitAnd(a, b) == [i \in 1..Len(a) |-> IF a[i] = 1 /\ b[i] = 1 THEN 1 ELSE 0]
BitOr(a, b) == [i \in 1..Len(a) |-> IF a[i] = 1 \/ b[i] = 1 THEN 1 ELSE 0]
BitNot(a) == [i \in 1..Len(a) |-> 1 - a[i]]

\* `v as uN`: truncation or zero extension to width w
Cast(v, w) == [i \in 1..w |-> BitAt(v, i - 1)]

\* the integer value of bits i .. k-1 of v, shifted down by i (k - i <= 31)
RECURSIVE BitsFrom(_, _, _)
BitsFrom(v, i, k) == IF i >= k THEN 0 ELSE BitAt(v, i) + 2 * BitsFrom(v, i + 1, k)

\* the integer value of the low k bits of v (k <= 31)
LowBits(v, k) == BitsFrom(v, 0, k)

\* `v as u8`, as a byte 0..255
AsU8(v) == LowBits(v, 8)

\* addition in limbs of up to 16 bits, least significant limb first: the sum
\* bits followed by the carry out
RECURSIVE AddFrom(_, _, _, _)
AddFrom(a, b, i, c) ==
    IF i >= Len(a) THEN <<c>>
    ELSE LET k == IF i + 16 <= Len(a) THEN i + 16 ELSE Len(a)
             t == BitsFrom(a, i, k) + BitsFrom(b, i, k) + c
         IN  [j \in 1..(k - i) |-> (t \div Pow2(j - 1)) % 2]
                 \o AddFrom(a, b, k, t \div Pow2(k - i))

\* a + b wrapped to the width, and whether the exact sum does not fit
Add(a, b) == SubSeq(AddFrom(a, b, 0, 0), 1, Len(a))
AddOverflows(a, b) == AddFrom(a, b, 0, 0)[Len(a) + 1] = 1

\* unsigned comparison a < b: the most significant differing bit decides
Lt(a, b) ==
    \E i \in 1..Len(a) : a[i] < b[i] /\ \A j \in (i + 1)..Len(a) : a[j] = b[j]

Gt(a, b) == Lt(b, a)
IsZero(a) == \A i \in 1..Len(a) : a[i] = 0

\* byte-level operators on u8 values
AndU8(a, b) == LowBits(BitAnd(FromInt(a, 8), FromInt(b, 8)), 8)
OrU8(a, b) == LowBits(BitOr(FromInt(a, 8), FromInt(b, 8)), 8)
ShlU8(a, n) == LowBits(Shl(FromInt(a, 8), n), 8)

\* ------------------------------------------------------------------------
\* Signed integers and the `as` casts between signed and unsigned
\* ------------------------------------------------------------------------

\* a signed value is [neg, mag] with mag its magnitude as a bit vector of
\* the type's width; zero is never negative
SInt(neg, mag) == [neg |-> neg /\ ~IsZero(mag), mag |-> mag]

\* iN::MIN of width w
SMin(w) == SInt(TRUE, Shl(FromInt(1, w), w - 1))

\* `val as uN` for a signed val of the same width: the two's-complement bits
SignedAsUnsigned(val) ==
    IF val.neg THEN Add(BitNot(val.mag), FromInt(1, Len(val.mag))) ELSE val.mag

\* `u as iN` for an unsigned u of the same width
UnsignedAsSigned(u) ==
    IF u[Len(u)] = 1 THEN SInt(TRUE, Add(BitNot(u), FromInt(1, Len(u))))
    ELSE SInt(FALSE, u)

\* ------------------------------------------------------------------------
\* BipackSink (bipack_sink.rs).  A sink is [bytes, panic]: the Vec<u8> it
\* appends to and whether the call has aborted.
\* ------------------------------------------------------------------------

V0LIMIT == Shl(FromInt(1, 64), 6)
\* faulty variant of V1LIMIT (1 << 13): values 8192..16383 get three bytes
V1LIMIT_13 == Shl(FromInt(1, 64), 13)
V1LIMIT == Shl(FromInt(1, 64), 14)
V2LIMIT == Shl(FromInt(1, 64), 22)

into_u64(x) == Cast(x, 64)

Sink(bytes) == [bytes |-> bytes, panic |-> FALSE]

\* faulty variant of put_u8: the byte is inserted at the front
put_u8_front(s, data) == [s EXCEPT !.bytes = <<data>> \o @]

\* impl BipackSink for Vec<u8>: push
put_u8(s, data) == [s EXCEPT !.bytes = Append(@, data)]

\* the loop `for b in data { self.put_u8(*b) }` over data[lo..hi], split in
\* halves: the bytes are put one by one, in order (nothing is put after a
\* panic)
RECURSIVE put_fixed_bytes_from(_, _, _, _)
put_fixed_bytes_from(s, data, lo, hi) ==
    IF lo > hi THEN s
    ELSE IF lo = hi THEN put_u8(s, data[lo])
    ELSE LET mid == (lo + hi) \div 2
             first == put_fixed_bytes_from(s, data, lo, mid)
         IN  IF first.panic THEN first
             ELSE put_fixed_bytes_from(first, data, mid + 1, hi)

put_fixed_bytes(s, data) == put_fixed_bytes_from(s, data, 1, Len(data))

\* the loop `for i in (0..result.len()).rev() { result[i] = value as u8;
\* value = value >> 8 }` of put_u16/put_u32/put_u64; i is 1-based here
RECURSIVE fixed_loop(_, _, _)
fixed_loop(result, value, i) ==
    IF i = 0 THEN result
    ELSE fixed_loop([result EXCEPT ![i] = AsU8(value)], Shr(value, 8), i - 1)

\* faulty variant of put_u32: least significant byte first
put_u32_le(s, value) ==
    LET r == fixed_loop(<<0, 0, 0, 0>>, value, 4)
    IN  put_fixed_bytes(s, <<r[4], r[3], r[2], r[1]>>)

put_u16(s, value) == put_fixed_bytes(s, fixed_loop(<<0, 0>>, value, 2))
put_u32(s, value) == put_fixed_bytes(s, fixed_loop(<<0, 0, 0, 0>>, value, 4))
put_u64(s, value) ==
    put_fixed_bytes(s, fixed_loop(<<0, 0, 0, 0, 0, 0, 0, 0>>, value, 8))

put_i64(s, value) == put_u64(s, SignedAsUnsigned(value))
put_i32(s, value) == put_u32(s, SignedAsUnsigned(value))
put_i16(s, value) == put_u16(s, SignedAsUnsigned(value))
put_i8(s, value) == put_u8(s, AsU8(SignedAsUnsigned(value)))

RECURSIVE put_var_unsigned(_, _)
put_var_unsigned(s, value) ==
    LET x == BitAnd(value, FromInt(127, 64))
        rest == Shr(value, 7)
        s1 == IF Gt(rest, Zero(64))
              THEN put_u8(s, AsU8(BitOr(x, FromInt(128, 64))))
              ELSE put_u8(s, AsU8(x))
    IN  IF IsZero(rest) THEN s1 ELSE put_var_unsigned(s1, rest)

RECURSIVE encode_seq_rest(_, _, _)
encode_seq_rest(s, bytes, i) ==
    IF i > Len(bytes) THEN s
    ELSE encode_seq_rest(put_u8(s, AsU8(bytes[i])), bytes, i + 1)

\* the closure encode_seq of put_unsigned
encode_seq(s, ty, bytes) ==
    IF Len(bytes) = 0 THEN put_u8(s, 0)
    ELSE IF Gt(bytes[1], V0LIMIT) THEN [s EXCEPT !.panic = TRUE]
    ELSE encode_seq_rest(
             put_u8(s, OrU8(AndU8(ty, 3), ShlU8(AsU8(bytes[1]), 2))), bytes, 2)

put_unsigned(s, number) ==
    LET value == into_u64(number)
        x3f == FromInt(63, 64)
    IN  IF Lt(value, V0LIMIT) THEN encode_seq(s, 0, <<value>>)
        ELSE IF Lt(value, V1LIMIT)
        THEN encode_seq(s, 1, <<BitAnd(value, x3f), Shr(value, 6)>>)
        ELSE IF Lt(value, V2LIMIT)
        THEN encode_seq(s, 2, <<BitAnd(value, x3f), Shr(value, 6), Shr(value, 14)>>)
        ELSE LET s1 == encode_seq(s, 3, <<BitAnd(value, x3f), Shr(value, 6),
                                          Shr(value, 14)>>)
             IN  IF s1.panic THEN s1 ELSE put_var_unsigned(s1, Shr(value, 22))

\* faulty variant of put_signed: the sign bit is not written
put_signed_nosign(s, val, oc) ==
    IF val.neg /\ val = SMin(64) /\ oc THEN [s EXCEPT !.panic = TRUE]
    ELSE put_unsigned(s, Shl(val.mag, 1))

\* put_signed; `-val` overflows for i64::MIN: with overflow checks (debug
\* profile) the call panics, without them (release profile) it wraps to
\* i64::MIN.  oc tells whether the build has overflow checks.
put_signed(s, val, oc) ==
    IF val.neg /\ val = SMin(64) /\ oc THEN [s EXCEPT !.panic = TRUE]
    ELSE LET neg == IF val.neg THEN 1 ELSE 0
             v == IF val.neg /\ val # SMin(64) THEN SInt(FALSE, val.mag) ELSE val
         IN  put_unsigned(s, BitOr(FromInt(neg, 64), Shl(SignedAsUnsigned(v), 1)))

\* faulty variant of put_var_bytes: the length is written as one raw byte
put_var_bytes_rawlen(s, data) == put_fixed_bytes(put_u8(s, Len(data) % 256), data)

put_var_bytes(s, data) == put_fixed_bytes(put_unsigned(s, FromInt(Len(data), 64)), data)

\* A Rust string is a sequence of chars (Unicode scalar values); as_bytes
\* gives its UTF-8 bytes
utf8_char(c) ==
    IF c < 128 THEN <<c>>
    ELSE IF c < 2048 THEN <<192 + (c \div 64), 128 + (c % 64)>>
    ELSE IF c < 65536
    THEN <<224 + (c \div 4096), 128 + ((c \div 64) % 64), 128 + (c % 64)>>
    ELSE <<240 + (c \div 262144), 128 + ((c \div 4096) % 64),
           128 + ((c \div 64) % 64), 128 + (c % 64)>>

RECURSIVE as_bytes(_)
as_bytes(t) ==
    IF Len(t) = 0 THEN <<>> ELSE utf8_char(Head(t)) \o as_bytes(Tail(t))

put_str(s, t) == put_var_bytes(s, as_bytes(t))

\* ------------------------------------------------------------------------
\* BipackSource and SliceSource (bipack_source.rs).  A decode operation on
\* the slice `data` with the cursor at `pos` gives a result
\* [tag, val, err, pos]: tag is "Ok" (val is the value), "Err" (err is the
\* BipackError) or "Panic" (the call aborted); pos is the cursor afterwards.
\* ------------------------------------------------------------------------

Ok(v, p) == [tag |-> "Ok", val |-> v, err |-> "", pos |-> p]
Err(e, p) == [tag |-> "Err", val |-> <<>>, err |-> e, pos |-> p]
Panic(p) == [tag |-> "Panic", val |-> <<>>, err |-> "panic", pos |-> p]

\* faulty variant of get_u8: the bound check is `>` instead of `>=`
get_u8_gt(data, pos) ==
    IF pos > Len(data) THEN Err("NoDataError", pos)
    ELSE IF pos + 1 \in DOMAIN data THEN Ok(data[pos + 1], pos + 1)
    ELSE Panic(pos)

\* faulty variant of get_u8: the cursor moves on a failed read too
get_u8_err_advances(data, pos) ==
    IF pos >= Len(data) THEN Err("NoDataError", pos + 1)
    ELSE IF pos + 1 \in DOMAIN data THEN Ok(data[pos + 1], pos + 1)
    ELSE Panic(pos)

\* faulty variant of get_u8: a failed read puts the cursor back to the start
get_u8_rewinds(data, pos) ==
    IF pos >= Len(data) THEN Err("NoDataError", 0)
    ELSE IF pos + 1 \in DOMAIN data THEN Ok(data[pos + 1], pos + 1)
    ELSE Panic(pos)

\* impl BipackSource for SliceSource; position counts from 0, and indexing
\* the slice outside its bounds panics
get_u8(data, pos) ==
    IF pos >= Len(data) THEN Err("NoDataError", pos)
    ELSE IF pos + 1 \in DOMAIN data THEN Ok(data[pos + 1], pos + 1)
    ELSE Panic(pos)

\* the `?` operator: an error or panic result r is returned as it is,
\* otherwise the call goes on with the value of r
Try(r, K(_)) == IF r.tag # "Ok" THEN r ELSE K(r)

\* a + b of the source: with overflow checks an overflow panics, without
\* them the sum wraps
checked_add(a, b, oc, p) ==
    IF AddOverflows(a, b) /\ oc THEN Panic(p) ELSE Ok(Add(a, b), p)

\* faulty variant of get_u16: the first byte is taken as the low one
get_u16_le(data, pos, oc) ==
    Try(get_u8(data, pos), LAMBDA a :
    Try(get_u8(data, a.pos), LAMBDA b :
        checked_add(Shl(FromInt(b.val, 16), 8), FromInt(a.val, 16), oc, b.pos)))

get_u16(data, pos, oc) ==
    Try(get_u8(data, pos), LAMBDA a :
    Try(get_u8(data, a.pos), LAMBDA b :
        checked_add(Shl(FromInt(a.val, 16), 8), FromInt(b.val, 16), oc, b.pos)))

get_u32(data, pos, oc) ==
    Try(get_u16(data, pos, oc), LAMBDA a :
    Try(get_u16(data, a.pos, oc), LAMBDA b :
        checked_add(Shl(Cast(a.val, 32), 16), Cast(b.val, 32), oc, b.pos)))

get_u64(data, pos, oc) ==
    Try(get_u32(data, pos, oc), LAMBDA a :
    Try(get_u32(data, a.pos, oc), LAMBDA b :
        Ok(BitOr(Shl(Cast(a.val, 64), 32), Cast(b.val, 64)), b.pos)))

\* the loop of get_varint_unsigned; a shift by 64 or more panics with
\* overflow checks and is taken modulo 64 without them
RECURSIVE varint_loop(_, _, _, _, _)
varint_loop(data, pos, oc, result, count) ==
    Try(get_u8(data, pos), LAMBDA r :
        IF count >= 64 /\ oc THEN Panic(r.pos)
        ELSE LET x == FromInt(r.val, 64)
                 res == BitOr(result, Shl(BitAnd(x, FromInt(127, 64)), count % 64))
             IN  IF IsZero(BitAnd(x, FromInt(128, 64))) THEN Ok(res, r.pos)
                 ELSE varint_loop(data, r.pos, oc, res, count + 7))

\* faulty variant of get_varint_unsigned: the shift count starts at 7
get_varint_unsigned_from7(data, pos, oc) == varint_loop(data, pos, oc, Zero(64), 7)

get_varint_unsigned(data, pos, oc) == varint_loop(data, pos, oc, Zero(64), 0)

\* the closure `get` of get_unsigned: the next byte as u64
get(data, pos) ==
    Try(get_u8(data, pos), LAMBDA r : Ok(FromInt(r.val, 64), r.pos))

\* faulty variant of type_tag: `first & 1`
type_tag_1bit(first) == LowBits(BitAnd(first, FromInt(1, 64)), 1)

\* `first & 3` of get_unsigned
type_tag(first) == LowBits(BitAnd(first, FromInt(3, 64)), 2)

get_unsigned(data, pos, oc) ==
    Try(get(data, pos), LAMBDA first :
        IF type_tag(first.val) = 0 THEN Ok(Shr(first.val, 2), first.pos)
        ELSE
    Try(get(data, first.pos), LAMBDA g1 :
    Try(checked_add(Shr(first.val, 2), Shl(g1.val, 6), oc, g1.pos), LAMBDA r1 :
        IF type_tag(first.val) - 1 = 0 THEN r1
        ELSE
    Try(get(data, r1.pos), LAMBDA g2 :
    Try(checked_add(r1.val, Shl(g2.val, 14), oc, g2.pos), LAMBDA r2 :
        IF type_tag(first.val) - 2 = 0 THEN r2
        ELSE
    Try(get_varint_unsigned(data, r2.pos, oc), LAMBDA v :
        Ok(BitOr(r2.val, Shl(v.val, 22)), v.pos)))))))

\* the loop `for i in 0..size { result.push(self.get_u8()?) }` for n
\* iterations, split in halves: the bytes are read one by one, in order, and
\* the first read that fails ends the loop
RECURSIVE fixed_bytes_loop(_, _, _)
fixed_bytes_loop(data, pos, n) ==
    IF n = 0 THEN Ok(<<>>, pos)
    ELSE IF n = 1
    THEN LET r == get_u8(data, pos)
         IN  IF r.tag # "Ok" THEN r ELSE Ok(<<r.val>>, r.pos)
    ELSE LET a == fixed_bytes_loop(data, pos, n \div 2)
         IN  IF a.tag # "Ok" THEN a
             ELSE LET b == fixed_bytes_loop(data, a.pos, n - n \div 2)
                  IN  IF b.tag # "Ok" THEN b ELSE Ok(a.val \o b.val, b.pos)

\* size is a usize (64 bits); Vec::with_capacity panics with "capacity
\* overflow" when size exceeds isize::MAX.  A size of 2^31 or more asks for
\* more bytes than any slice of the model holds: the loop runs until the
\* read past the end
get_fixed_bytes(data, pos, size) ==
    IF size[64] = 1 THEN Panic(pos)
    ELSE fixed_bytes_loop(data, pos,
             IF \A i \in 31..63 : BitAt(size, i) = 0 THEN LowBits(size, 31)
             ELSE Len(data) + 1)

var_bytes(data, pos, oc) ==
    Try(get_unsigned(data, pos, oc), LAMBDA size :
        get_fixed_bytes(data, size.pos, size.val))

\* String::from_utf8: the chars of a well-formed UTF-8 byte sequence, or a
\* FromUtf8Error.  cont(b) tells a continuation byte with b in lo..hi.
utf8_in(bytes, i, lo, hi) == i <= Len(bytes) /\ bytes[i] >= lo /\ bytes[i] <= hi

RECURSIVE from_utf8_at(_, _, _)
from_utf8_at(bytes, i, acc) ==
    IF i > Len(bytes) THEN [ok |-> TRUE, str |-> acc]
    ELSE LET b == bytes[i]
             c1 == bytes[i + 1] % 64
             c2 == bytes[i + 2] % 64
             c3 == bytes[i + 3] % 64
             bad == [ok |-> FALSE, str |-> <<>>]
         IN  IF b < 128 THEN from_utf8_at(bytes, i + 1, Append(acc, b))
             ELSE IF b >= 194 /\ b <= 223
             THEN IF utf8_in(bytes, i + 1, 128, 191)
                  THEN from_utf8_at(bytes, i + 2, Append(acc, (b % 32) * 64 + c1))
                  ELSE bad
             ELSE IF b >= 224 /\ b <= 239
             THEN IF /\ utf8_in(bytes, i + 1, IF b = 224 THEN 160 ELSE 128,
                                IF b = 237 THEN 159 ELSE 191)
                     /\ utf8_in(bytes, i + 2, 128, 191)
                  THEN from_utf8_at(bytes, i + 3,
                                    Append(acc, (b % 16) * 4096 + c1 * 64 + c2))
                  ELSE bad
             ELSE IF b >= 240 /\ b <= 244
             THEN IF /\ utf8_in(bytes, i + 1, IF b = 240 THEN 144 ELSE 128,
                                IF b = 244 THEN 143 ELSE 191)
                     /\ utf8_in(bytes, i + 2, 128, 191)
                     /\ utf8_in(bytes, i + 3, 128, 191)
                  THEN from_utf8_at(bytes, i + 4,
                           Append(acc, (b % 8) * 262144 + c1 * 4096 + c2 * 64 + c3))
                  ELSE bad
             ELSE bad

from_utf8(bytes) == from_utf8_at(bytes, 1, <<>>)

\* String::from_utf8(bytes).or_else(|e| Err(BipackError::BadEncoding(e)))
utf8_result(u, p) == IF u.ok THEN Ok(u.str, p) ELSE Err("BadEncoding", p)

str(data, pos, oc) ==
    Try(var_bytes(data, pos, oc), LAMBDA r : utf8_result(from_utf8(r.val), r.pos))

\* Decode operations that the tests and bipack.rs call but bipack_source.rs
\* does not define; they follow the description of the source's operations:
\* get_iN reads the unsigned value of the same width and reinterprets its
\* bits, get_signed takes the lowest bit of get_unsigned as the sign and the
\* remaining bits as the magnitude, get_str validates var_bytes as UTF-8.
get_i8(data, pos) ==
    Try(get_u8(data, pos), LAMBDA r : Ok(UnsignedAsSigned(FromInt(r.val, 8)), r.pos))

get_i16(data, pos, oc) ==
    Try(get_u16(data, pos, oc), LAMBDA r : Ok(UnsignedAsSigned(r.val), r.pos))

get_i32(data, pos, oc) ==
    Try(get_u32(data, pos, oc), LAMBDA r : Ok(UnsignedAsSigned(r.val), r.pos))

get_i64(data, pos, oc) ==
    Try(get_u64(data, pos, oc), LAMBDA r : Ok(UnsignedAsSigned(r.val), r.pos))

get_signed(data, pos, oc) ==
    Try(get_unsigned(data, pos, oc), LAMBDA r :
        Ok(SInt(r.val[1] = 1, Shr(r.val, 1)), r.pos))

get_str(data, pos, oc) ==
    Try(var_bytes(data, pos, oc), LAMBDA r : utf8_result(from_utf8(r.val), r.pos))

\* ------------------------------------------------------------------------
\* bipack.rs: BiPackable / BiUnpackable.  ty names the Rust type.
\* ------------------------------------------------------------------------

\* impl<T: IntoU64 + Copy> BiPackable for T, impl BiPackable for &str
bi_pack(s, ty, value) ==
    IF ty = "str" THEN put_str(s, value) ELSE put_unsigned(s, into_u64(value))

TypeWidth(ty) == IF ty = "u8" THEN 8 ELSE IF ty = "u16" THEN 16
                 ELSE IF ty = "u32" THEN 32 ELSE 64

\* declare_unpack_u!(u16, u32, u64), impl BiUnpackable for u8 / String
bi_unpack(data, pos, oc, ty) ==
    IF ty = "str" THEN get_str(data, pos, oc)
    ELSE IF ty = "u8"
    THEN Try(get_u8(data, pos), LAMBDA r : Ok(FromInt(r.val, 8), r.pos))
    ELSE Try(get_unsigned(data, pos, oc), LAMBDA r :
             Ok(Cast(r.val, TypeWidth(ty)), r.pos))

\* ------------------------------------------------------------------------
\* Bounds and input values
\* ------------------------------------------------------------------------

\* longest byte array given to put_var_bytes / put_fixed_bytes (besides the
\* long ones of LongBytes) and longest string given to put_str
MaxBytesLen == 2
MaxStrLen == 2
\* longest slice and number of decode calls of the decoder-only runs
MaxData == 3
MaxGets == 2

\* longest slice of the decode-and-encode-again runs, and the largest number
\* of continuation bytes in their long varints
MaxDecLen == 4
MaxCont == 11

\* longest slice and number of decode calls of the repeated-call runs
MaxRetryData == 2
MaxRetries == 3

\* largest number of values written to one Vec in the sequence runs
MaxPuts == 3

\* the low k bits set: 2^k - 1
Ones(k, w) == [i \in 1..w |-> IF i <= k THEN 1 ELSE 0]

\* 931127140399 = 0xD8CB80A02F, the u64 of the crate's tests
V931 == BitOr(Shl(FromInt(55499, 64), 24), FromInt(8429615, 64))

TestValues == {FromInt(7, 64), FromInt(177, 64), FromInt(24573, 64),
               FromInt(64000, 64), FromInt(66000, 64), FromInt(2147483647, 64),
               V931}

\* values of width w: every 2^k - 1, 2^k and 2^k + 1, the alternating bit
\* patterns and the values of the crate's tests
Samples(w) ==
    {Ones(k, w) : k \in 0..w}
    \cup {Shl(FromInt(1, w), k) : k \in 0..(w - 1)}
    \cup {Add(Shl(FromInt(1, w), k), FromInt(1, w)) : k \in 1..(w - 1)}
    \cup {[i \in 1..w |-> i % 2], [i \in 1..w |-> (i + 1) % 2]}
    \cup {Cast(t, w) : t \in TestValues}

\* signed values of width w: plus and minus every sample that fits, and MIN
SignedSamples(w) ==
    {SInt(n, m) : n \in BOOLEAN, m \in {x \in Samples(w) : x[w] = 0}}
    \cup {SMin(w)}

Bytes == 0..255

ByteSample == {0, 1, 127, 128, 255}

RECURSIVE SeqsUpTo(_, _)
SeqsUpTo(S, n) ==
    IF n = 0 THEN {<<>>}
    ELSE LET shorter == SeqsUpTo(S, n - 1)
         IN  shorter \cup {Append(q, x) : q \in {t \in shorter : Len(t) = n - 1}, x \in S}

\* byte arrays whose length needs a two-byte smartint prefix, or just not
LongBytes == {[i \in 1..n |-> (7 * i) % 256] : n \in {63, 64, 65}}

ByteArrays == SeqsUpTo(ByteSample, MaxBytesLen) \cup LongBytes

\* chars at the ends of the 1-, 2-, 3- and 4-byte UTF-8 ranges and around
\* the surrogate gap
CharSample == {36, 127, 128, 2047, 2048, 55295, 57344, 65536, 1114111}

Strings == SeqsUpTo(CharSample, MaxStrLen)

PackTypes == {"u8", "u16", "u32", "u64", "str"}

PackValues(ty) == IF ty = "str" THEN Strings ELSE Samples(TypeWidth(ty))

\* ------------------------------------------------------------------------
\* State
\* ------------------------------------------------------------------------

VARIABLES
    buf,        \* the Vec<u8> the sink appends to
    puts,       \* the put calls made on buf: [op, arg]
    data,       \* SliceSource.data
    position,   \* SliceSource.position
    gets,       \* the decode calls made on the source: [op, arg, at, res]
    phase       \* "sink": buf is being written; "source": a SliceSource
                \* borrows it; "aborted": a call panicked

vars == <<buf, puts, data, position, gets, phase>>

\* Vec::new()
Init ==
    /\ buf = <<>>
    /\ puts = <<>>
    /\ data = <<>>
    /\ position = 0
    /\ gets = <<>>
    /\ phase = "sink"

\* a call of a sink operation that leaves the sink as s
DoPut(op, arg, s) ==
    /\ phase = "sink"
    /\ buf' = s.bytes
    /\ puts' = Append(puts, [op |-> op, arg |-> arg])
    /\ phase' = IF s.panic THEN "aborted" ELSE "sink"
    /\ UNCHANGED <<data, position, gets>>

PutU8 == \E v \in Bytes : DoPut("put_u8", v, put_u8(Sink(buf), v))
PutU16 == \E v \in Samples(16) : DoPut("put_u16", v, put_u16(Sink(buf), v))
PutU32 == \E v \in Samples(32) : DoPut("put_u32", v, put_u32(Sink(buf), v))
PutU64 == \E v \in Samples(64) : DoPut("put_u64", v, put_u64(Sink(buf), v))
PutI8 == \E v \in SignedSamples(8) : DoPut("put_i8", v, put_i8(Sink(buf), v))
PutI16 == \E v \in SignedSamples(16) : DoPut("put_i16", v, put_i16(Sink(buf), v))
PutI32 == \E v \in SignedSamples(32) : DoPut("put_i32", v, put_i32(Sink(buf), v))
PutI64 == \E v \in SignedSamples(64) : DoPut("put_i64", v, put_i64(Sink(buf), v))
PutUnsigned ==
    \E v \in Samples(64) : DoPut("put_unsigned", v, put_unsigned(Sink(buf), v))
PutSigned ==
    \E v \in SignedSamples(64), oc \in BOOLEAN :
        DoPut("put_signed", v, put_signed(Sink(buf), v, oc))
PutVarUnsigned ==
    \E v \in Samples(64) :
        DoPut("put_var_unsigned", v, put_var_unsigned(Sink(buf), v))
PutFixedBytes ==
    \E b \in ByteArrays : DoPut("put_fixed_bytes", b, put_fixed_bytes(Sink(buf), b))
PutVarBytes ==
    \E b \in ByteArrays : DoPut("put_var_bytes", b, put_var_bytes(Sink(buf), b))
PutStr == \E t \in Strings : DoPut("put_str", t, put_str(Sink(buf), t))
BiPack ==
    \E ty \in PackTypes : \E v \in PackValues(ty) :
        DoPut("bi_pack", [ty |-> ty, value |-> v], bi_pack(Sink(buf), ty, v))

\* SliceSource::from(&buf[..k])
From(k) ==
    /\ phase = "sink"
    /\ data' = SubSeq(buf, 1, k)
    /\ position' = 0
    /\ gets' = <<>>
    /\ phase' = "source"
    /\ UNCHANGED <<buf, puts>>

\* a call of a decode operation with result r
DoGet(op, arg, r) ==
    /\ phase = "source"
    /\ gets' = Append(gets, [op |-> op, arg |-> arg, at |-> position, res |-> r])
    /\ position' = r.pos
    /\ phase' = IF r.tag = "Panic" THEN "aborted" ELSE "source"
    /\ UNCHANGED <<buf, puts, data>>

GetU8 == DoGet("get_u8", <<>>, get_u8(data, position))
GetU16 == \E oc \in BOOLEAN : DoGet("get_u16", <<>>, get_u16(data, position, oc))
GetU32 == \E oc \in BOOLEAN : DoGet("get_u32", <<>>, get_u32(data, position, oc))
GetU64 == \E oc \in BOOLEAN : DoGet("get_u64", <<>>, get_u64(data, position, oc))
GetI8 == DoGet("get_i8", <<>>, get_i8(data, position))
GetI16 == \E oc \in BOOLEAN : DoGet("get_i16", <<>>, get_i16(data, position, oc))
GetI32 == \E oc \in BOOLEAN : DoGet("get_i32", <<>>, get_i32(data, position, oc))
GetI64 == \E oc \in BOOLEAN : DoGet("get_i64", <<>>, get_i64(data, position, oc))
GetUnsigned ==
    \E oc \in BOOLEAN : DoGet("get_unsigned", <<>>, get_unsigned(data, position, oc))
GetSigned ==
    \E oc \in BOOLEAN : DoGet("get_signed", <<>>, get_signed(data, position, oc))
GetVarintUnsigned ==
    \E oc \in BOOLEAN :
        DoGet("get_varint_unsigned", <<>>, get_varint_unsigned(data, position, oc))
GetFixedBytes(n) ==
    DoGet("get_fixed_bytes", n, get_fixed_bytes(data, position, FromInt(n, 64)))
VarBytes == \E oc \in BOOLEAN : DoGet("var_bytes", <<>>, var_bytes(data, position, oc))
Str == \E oc \in BOOLEAN : DoGet("str", <<>>, str(data, position, oc))
BiUnpack(ty) ==
    \E oc \in BOOLEAN : DoGet("bi_unpack", ty, bi_unpack(data, position, oc, ty))

\* ------------------------------------------------------------------------
\* Spec: the round-trip runs of the crate's tests.  One value is written to
\* a new Vec, a SliceSource is made over the Vec or a prefix of it, and the
\* decode operation that matches the put is called on it.
\* ------------------------------------------------------------------------

Fresh == puts = <<>>
Written(op) == gets = <<>> /\ Len(puts) = 1 /\ puts[1].op = op

Next ==
    \/ Fresh /\ PutU8
    \/ Fresh /\ PutU16
    \/ Fresh /\ PutU32
    \/ Fresh /\ PutU64
    \/ Fresh /\ PutI8
    \/ Fresh /\ PutI16
    \/ Fresh /\ PutI32
    \/ Fresh /\ PutI64
    \/ Fresh /\ PutUnsigned
    \/ Fresh /\ PutSigned
    \/ Fresh /\ PutVarUnsigned
    \/ Fresh /\ PutFixedBytes
    \/ Fresh /\ PutVarBytes
    \/ Fresh /\ PutStr
    \/ Fresh /\ BiPack
    \/ \E k \in 0..Len(buf) : ~Fresh /\ From(k)
    \/ Written("put_u8") /\ GetU8
    \/ Written("put_u16") /\ GetU16
    \/ Written("put_u32") /\ GetU32
    \/ Written("put_u64") /\ GetU64
    \/ Written("put_i8") /\ GetI8
    \/ Written("put_i16") /\ GetI16
    \/ Written("put_i32") /\ GetI32
    \/ Written("put_i64") /\ GetI64
    \/ Written("put_unsigned") /\ GetUnsigned
    \/ Written("put_signed") /\ GetSigned
    \/ Written("put_var_unsigned") /\ GetVarintUnsigned
    \/ Written("put_fixed_bytes") /\ GetFixedBytes(Len(puts[1].arg))
    \/ Written("put_var_bytes") /\ VarBytes
    \/ Written("put_str") /\ Str
    \/ Written("bi_pack") /\ BiUnpack(puts[1].arg.ty)

Spec == Init /\ [][Next]_vars

\* ------------------------------------------------------------------------
\* SpecSrc: a SliceSource over arbitrary bytes (not only ones a sink wrote)
\* and any sequence of at most MaxGets decode calls on it.
\* ------------------------------------------------------------------------

\* a type-0 length of 0 and of 1, the type tags 1 and 3, a continuation byte
SrcBytes == {0, 1, 3, 4, 128}

InitSrc ==
    /\ buf \in SeqsUpTo(SrcBytes, MaxData)
    /\ puts = <<>>
    /\ data = buf
    /\ position = 0
    /\ gets = <<>>
    /\ phase = "source"

More == Len(gets) < MaxGets

NextSrc ==
    \/ More /\ GetU8
    \/ More /\ GetU16
    \/ More /\ GetU32
    \/ More /\ GetU64
    \/ More /\ GetUnsigned
    \/ More /\ GetVarintUnsigned
    \/ \E n \in 0..2 : More /\ GetFixedBytes(n)
    \/ More /\ VarBytes
    \/ More /\ Str

SpecSrc == InitSrc /\ [][NextSrc]_vars

\* ------------------------------------------------------------------------
\* SpecDec: get_unsigned or get_varint_unsigned is called once on a
\* SliceSource over arbitrary bytes; a value that get_unsigned returned is
\* then written to a new Vec with put_unsigned.
\* ------------------------------------------------------------------------

\* the four type tags in a first byte, the ends of the 7-bit range and bytes
\* with the top (continuation) bit set
DecBytes == {0, 1, 2, 3, 127, 128, 255}

\* varints of up to MaxCont continuation bytes, complete or cut off, alone
\* and after the three leading bytes of a type-3 smartint
LongVarints ==
    {h \o [i \in 1..k |-> c] \o t :
        h \in {<<>>, <<3, 0, 0>>, <<255, 255, 255>>},
        k \in 5..MaxCont, c \in {128, 255}, t \in {<<>>, <<0>>, <<1>>, <<127>>}}

DecodeInputs == SeqsUpTo(DecBytes, MaxDecLen) \cup LongVarints

\* SliceSource::from(x) for some bytes x, and Vec::new()
InitDec ==
    /\ buf = <<>>
    /\ puts = <<>>
    /\ data \in DecodeInputs
    /\ position = 0
    /\ gets = <<>>
    /\ phase = "source"

\* put_unsigned(v) on the new Vec, for the v that get_unsigned returned
Reencode ==
    /\ phase = "source" /\ puts = <<>>
    /\ Len(gets) = 1 /\ gets[1].op = "get_unsigned" /\ gets[1].res.tag = "Ok"
    /\ LET s == put_unsigned(Sink(buf), gets[1].res.val)
       IN  /\ buf' = s.bytes
           /\ puts' = Append(puts, [op |-> "put_unsigned", arg |-> gets[1].res.val])
           /\ phase' = IF s.panic THEN "aborted" ELSE phase
    /\ UNCHANGED <<data, position, gets>>

NextDec ==
    \/ gets = <<>> /\ GetUnsigned
    \/ gets = <<>> /\ GetVarintUnsigned
    \/ Reencode

SpecDec == InitDec /\ [][NextDec]_vars

\* ------------------------------------------------------------------------
\* SpecRetry: a SliceSource over a short slice of arbitrary bytes and any
\* sequence of at most MaxRetries decode calls on it, so that a call that
\* failed is made again after other calls.
\* ------------------------------------------------------------------------

InitRetry ==
    /\ buf \in SeqsUpTo(SrcBytes, MaxRetryData)
    /\ puts = <<>>
    /\ data = buf
    /\ position = 0
    /\ gets = <<>>
    /\ phase = "source"

Again == Len(gets) < MaxRetries

NextRetry ==
    \/ Again /\ GetU8
    \/ Again /\ GetU16
    \/ Again /\ GetU32
    \/ Again /\ GetU64
    \/ Again /\ GetUnsigned
    \/ Again /\ GetVarintUnsigned
    \/ \E n \in 0..2 : Again /\ GetFixedBytes(n)
    \/ Again /\ VarBytes
    \/ Again /\ Str

SpecRetry == InitRetry /\ [][NextRetry]_vars

\* ------------------------------------------------------------------------
\* SpecSeq: the runs of the crate's fixed_unpack and smartint_unpack tests.
\* Up to MaxPuts values are appended to one new Vec by any mix of put_u8,
\* put_u16, put_u32, put_u64, put_unsigned and put_var_bytes; a SliceSource
\* is made over the whole Vec and the matching gets are called in order.
\* ------------------------------------------------------------------------

\* bytes that look like a type-3 tag and a continuation byte to a decoder
SeqU8 == {3, 255}
\* 0x0102, 0x01020304 and the u64 of the crate's tests
SeqU16 == {FromInt(258, 16)}
SeqU32 == {FromInt(16909060, 32)}
SeqU64 == {V931}
\* values with encodings of 1, 3 and 9 bytes
SeqUnsigned == {Zero(64), FromInt(24573, 64), Ones(64, 64)}
\* the empty array and one with a two-byte length
SeqBytes == {<<>>, [i \in 1..64 |-> (7 * i) % 256]}

CanPut == Len(puts) < MaxPuts

\* the next get is due for a value written by op
Due(op) ==
    /\ Len(gets) < Len(puts)
    /\ puts[Len(gets) + 1].op = op

NextSeq ==
    \/ \E v \in SeqU8 : CanPut /\ DoPut("put_u8", v, put_u8(Sink(buf), v))
    \/ \E v \in SeqU16 : CanPut /\ DoPut("put_u16", v, put_u16(Sink(buf), v))
    \/ \E v \in SeqU32 : CanPut /\ DoPut("put_u32", v, put_u32(Sink(buf), v))
    \/ \E v \in SeqU64 : CanPut /\ DoPut("put_u64", v, put_u64(Sink(buf), v))
    \/ \E v \in SeqUnsigned :
           CanPut /\ DoPut("put_unsigned", v, put_unsigned(Sink(buf), v))
    \/ \E b \in SeqBytes :
           CanPut /\ DoPut("put_var_bytes", b, put_var_bytes(Sink(buf), b))
    \/ From(Len(buf))
    \/ Due("put_u8") /\ GetU8
    \/ Due("put_u16") /\ GetU16
    \/ Due("put_u32") /\ GetU32
    \/ Due("put_u64") /\ GetU64
    \/ Due("put_unsigned") /\ GetUnsigned
    \/ Due("put_var_bytes") /\ VarBytes

SpecSeq == Init /\ [][NextSeq]_vars

\* ------------------------------------------------------------------------
\* Properties
\* ------------------------------------------------------------------------

\* bit j of the byte b
ByteBit(b, j) == (b \div Pow2(j)) % 2

\* the Vec holds the output of exactly one call of op
One(op) == Len(puts) = 1 /\ puts[1].op = op

\* one decode call was made, on a source over the whole Vec
DecodedWhole == Len(gets) = 1 /\ Len(data) = Len(buf)

\* one decode call was made, on a source over a strict prefix of the Vec
DecodedPrefix == Len(gets) = 1 /\ Len(data) < Len(buf)

\* bits n and above of v are all zero: v < 2^n
Below(v, n) == \A i \in n..(Len(v) - 1) : BitAt(v, i) = 0

\* C1: for every u64 v, put_unsigned(v) into an empty buffer followed by
\* get_unsigned on a SliceSource over that buffer returns Ok(v).
C1_UnsignedRoundTrip ==
    (One("put_unsigned") /\ DecodedWhole) =>
        /\ gets[1].res.tag = "Ok"
        /\ gets[1].res.val = puts[1].arg

\* the largest u64, 2^64 - 1, has been written and read back
C1_Witness ==
    /\ One("put_unsigned") /\ DecodedWhole
    /\ puts[1].arg = Ones(64, 64)
    /\ gets[1].res.tag = "Ok"
    /\ gets[1].res.pos = 9

\* C2: put_unsigned(v) appends the canonical smartint encoding of v: 1 byte
\* below 2^6, 2 bytes below 2^14, 3 bytes below 2^22, else 3+N bytes with N
\* the minimal number of base-128 groups of v >> 22 (at most 9 bytes); the
\* first byte has the tag min(length-1, 3) in bits 0-1 and bits 0-5 of v in
\* bits 2-7, the next two bytes are bits 6-13 and 14-21 of v, and tail byte k
\* has bits 22+7k .. 28+7k of v with its top bit set except on the last.
C2_CanonicalEncoding ==
    One("put_unsigned") =>
        LET v == puts[1].arg
            n == Len(buf)
        IN  /\ n \in 1..9
            /\ n = 1 <=> Below(v, 6)
            /\ n = 2 <=> (Below(v, 14) /\ ~Below(v, 6))
            /\ n = 3 <=> (Below(v, 22) /\ ~Below(v, 14))
            /\ n > 3 => /\ Below(v, 22 + 7 * (n - 3))
                        /\ n > 4 => ~Below(v, 22 + 7 * (n - 4))
            /\ buf[1] % 4 = (IF n - 1 < 3 THEN n - 1 ELSE 3)
            /\ \A j \in 0..5 : ByteBit(buf[1], 2 + j) = BitAt(v, j)
            /\ n >= 2 => \A j \in 0..7 : ByteBit(buf[2], j) = BitAt(v, 6 + j)
            /\ n >= 3 => \A j \in 0..7 : ByteBit(buf[3], j) = BitAt(v, 14 + j)
            /\ \A k \in 0..(n - 4) :
                   /\ \A j \in 0..6 : ByteBit(buf[4 + k], j) = BitAt(v, 22 + 7 * k + j)
                   /\ ByteBit(buf[4 + k], 7) = (IF k < n - 4 THEN 1 ELSE 0)

\* 2^64 - 1 has been written, as nine bytes
C2_Witness ==
    /\ One("put_unsigned")
    /\ puts[1].arg = Ones(64, 64)
    /\ buf = <<255, 255, 255, 255, 255, 255, 255, 255, 127>>

\* the widths of the fixed-width puts, in bytes
FixedBytes(op) == IF op = "put_u16" THEN 2 ELSE IF op = "put_u32" THEN 4 ELSE 8

\* C3: put_u16(v), put_u32(v) and put_u64(v) append exactly 2, 4 and 8
\* bytes, most significant first: byte i is (v >> 8*(width-1-i)) mod 256.
C3_FixedBigEndian ==
    \A op \in {"put_u16", "put_u32", "put_u64"} :
        One(op) =>
            /\ Len(buf) = FixedBytes(op)
            /\ \A i \in 0..(FixedBytes(op) - 1) : \A j \in 0..7 :
                   ByteBit(buf[i + 1], j) =
                       BitAt(puts[1].arg, 8 * (FixedBytes(op) - 1 - i) + j)

\* the u64 of the crate's fixed_pack test has been written
C3_Witness ==
    /\ One("put_u64")
    /\ puts[1].arg = V931
    /\ buf = <<0, 0, 0, 216, 203, 128, 160, 47>>

\* C4: for every value of each width 8/16/32/64, unsigned or signed, the put
\* of that width followed by the get of the same width returns the value.
C4_FixedRoundTrip ==
    \A op \in {"put_u8", "put_u16", "put_u32", "put_u64",
               "put_i8", "put_i16", "put_i32", "put_i64"} :
        (One(op) /\ DecodedWhole) =>
            /\ gets[1].res.tag = "Ok"
            /\ gets[1].res.val = puts[1].arg

\* the minimum signed 64-bit value has been written and read back
C4_Witness ==
    /\ One("put_i64") /\ DecodedWhole
    /\ puts[1].arg = SMin(64)
    /\ buf = <<128, 0, 0, 0, 0, 0, 0, 0>>
    /\ gets[1].res.tag = "Ok"

\* C5: for every signed v with |v| < 2^63, put_signed(v) writes the smartint
\* encoding of (|v| << 1) | (1 if v < 0 else 0), and get_signed on those
\* bytes returns v.
C5_SignedRoundTrip ==
    (One("put_signed") /\ puts[1].arg # SMin(64)) =>
        LET v == puts[1].arg
            u == BitOr(Shl(v.mag, 1), FromInt(IF v.neg THEN 1 ELSE 0, 64))
        IN  /\ phase # "aborted"
            /\ buf = put_unsigned(Sink(<<>>), u).bytes
            /\ DecodedWhole => /\ gets[1].res.tag = "Ok"
                               /\ gets[1].res.val = v

\* -(2^63 - 1), the negative end of the range, has been written and read back
C5_Witness ==
    /\ One("put_signed") /\ DecodedWhole
    /\ puts[1].arg = SInt(TRUE, Ones(63, 64))
    /\ gets[1].res.tag = "Ok"
    /\ gets[1].res.val.neg

\* C6: get_u16, get_u32, get_u64 and get_unsigned on a strict prefix of the
\* output of the matching put return NoDataError and never index the slice
\* outside its bounds.
C6_Underrun ==
    \A op \in {"put_u16", "put_u32", "put_u64", "put_unsigned"} :
        (One(op) /\ DecodedPrefix) =>
            /\ gets[1].res.tag = "Err"
            /\ gets[1].res.err = "NoDataError"

\* the nine bytes of 2^64 - 1 cut to eight, and get_unsigned has failed
C6_Witness ==
    /\ One("put_unsigned") /\ DecodedPrefix
    /\ Len(buf) = 9 /\ Len(data) = 8
    /\ gets[1].res.tag = "Err"

\* C7: on a SliceSource 0 <= position <= data.len() always holds and no
\* decode call decreases position; a successful get_u8 returns
\* data[position] and adds 1 to position, and get_u8 fails exactly when
\* position = data.len().
C7_CursorInvariant ==
    /\ position \in 0..Len(data)
    /\ \A i \in DOMAIN gets :
           LET g == gets[i]
           IN  /\ g.res.pos >= g.at
               /\ g.op = "get_u8" =>
                      /\ g.res.tag # "Panic"
                      /\ (g.res.tag = "Err") <=> (g.at = Len(data))
                      /\ g.res.tag = "Ok" => /\ g.res.val = data[g.at + 1]
                                             /\ g.res.pos = g.at + 1
                      /\ g.res.tag = "Err" => g.res.pos = g.at

\* get_u8 has succeeded on the last byte and then failed at the end
C7_Witness ==
    /\ Len(gets) = 2
    /\ gets[1].op = "get_u8" /\ gets[1].res.tag = "Ok"
    /\ gets[2].op = "get_u8" /\ gets[2].res.tag = "Err"
    /\ position = Len(data)

\* C8: no put aborts, whatever its input; in particular the "first byte is
\* too big" check of put_unsigned is never triggered.
C8_SinkNeverFails == ~(phase = "aborted" /\ gets = <<>>)

\* C9: put_var_bytes(b) appends the smartint encoding of len(b) followed by
\* b, and var_bytes on a SliceSource over the result returns b; put_str(s)
\* followed by str returns s.
C9_VarBytesRoundTrip ==
    /\ One("put_var_bytes") =>
           /\ buf = put_unsigned(Sink(<<>>), FromInt(Len(puts[1].arg), 64)).bytes
                        \o puts[1].arg
           /\ DecodedWhole => /\ gets[1].res.tag = "Ok"
                              /\ gets[1].res.val = puts[1].arg
    /\ (One("put_str") /\ DecodedWhole) =>
           /\ gets[1].res.tag = "Ok"
           /\ gets[1].res.val = puts[1].arg

\* a string of a 4-byte and a 2-byte char has been written and read back
C9_Witness ==
    /\ One("put_str") /\ DecodedWhole
    /\ puts[1].arg = <<1114111, 128>>
    /\ buf = <<24, 244, 143, 191, 191, 194, 128>>
    /\ gets[1].res.tag = "Ok"

\* C10: a value packed by bi_pack of its type and unpacked by bi_unpack of
\* the same type comes back unchanged, for u8, u16, u32, u64 and strings.
C10_PackRoundTrip ==
    (One("bi_pack") /\ DecodedWhole) =>
        /\ gets[1].res.tag = "Ok"
        /\ gets[1].res.val = puts[1].arg.value

\* C11: the documented example vector: put_unsigned(24573) on an empty
\* buffer gives exactly the three bytes EA FF 02.
C11_DocVector ==
    (One("put_unsigned") /\ puts[1].arg = FromInt(24573, 64)) =>
        buf = <<234, 255, 2>>

\* the bytes that the first decode call consumed
Consumed == SubSeq(data, gets[1].at + 1, gets[1].res.pos)

\* C12 (as stated): for every byte sequence x from which get_unsigned
\* decodes a value v, put_unsigned(v) produces exactly the bytes that
\* get_unsigned consumed from x.
C12_EncodeDecode == One("put_unsigned") => buf = Consumed

\* C12 (amended): for every byte sequence x from which get_unsigned decodes
\* a value v, put_unsigned(v) produces bytes that get_unsigned decodes to v
\* again and that are no more than the bytes consumed from x; they are the
\* consumed bytes exactly when as many bytes were consumed (x is minimal).
C12_Reencode ==
    One("put_unsigned") =>
        /\ phase # "aborted"
        /\ Len(buf) <= Len(Consumed)
        /\ Len(buf) = Len(Consumed) => buf = Consumed
        /\ \A oc \in BOOLEAN :
               get_unsigned(buf, 0, oc) = Ok(gets[1].res.val, Len(buf))

\* the type-3 encoding 03 00 00 00 of zero was decoded, and written as 00
C12_Witness ==
    /\ One("put_unsigned")
    /\ Consumed = <<3, 0, 0, 0>>
    /\ buf = <<0>>

\* C13: on any byte sequence get_unsigned and get_varint_unsigned return a
\* value or NoDataError; no input makes them abort on a shift by 64 bits or
\* more or on an overflow.
C13_DecodeTotal ==
    \A i \in DOMAIN gets :
        gets[i].op \in {"get_unsigned", "get_varint_unsigned"} =>
            \/ gets[i].res.tag = "Ok"
            \/ gets[i].res.tag = "Err" /\ gets[i].res.err = "NoDataError"

\* C14: once a decode operation on a SliceSource has returned NoDataError,
\* every later call of the same operation on that source returns NoDataError
\* again, whatever other decode calls are made in between.
C14_FailureStays ==
    \A i, j \in DOMAIN gets :
        (/\ i < j
         /\ gets[i].op = gets[j].op /\ gets[i].arg = gets[j].arg
         /\ gets[i].res.err = "NoDataError") =>
            /\ gets[j].res.tag = "Err"
            /\ gets[j].res.err = "NoDataError"

\* get_unsigned failed after the first byte of a two-byte smartint, an empty
\* get_fixed_bytes succeeded, and get_unsigned failed again
C14_Witness ==
    /\ data = <<1>>
    /\ Len(gets) = 3
    /\ gets[1].op = "get_unsigned" /\ gets[1].res.err = "NoDataError"
    /\ gets[1].res.pos = 1
    /\ gets[2].op = "get_fixed_bytes" /\ gets[2].res.tag = "Ok"
    /\ gets[3].op = "get_unsigned" /\ gets[3].res.err = "NoDataError"

\* the bytes that the put p appends to an empty Vec
Alone(p) ==
    CASE p.op = "put_u8" -> <<p.arg>>
      [] p.op = "put_u16" -> put_u16(Sink(<<>>), p.arg).bytes
      [] p.op = "put_u32" -> put_u32(Sink(<<>>), p.arg).bytes
      [] p.op = "put_u64" -> put_u64(Sink(<<>>), p.arg).bytes
      [] p.op = "put_unsigned" -> put_unsigned(Sink(<<>>), p.arg).bytes
      [] p.op = "put_var_bytes" -> put_var_bytes(Sink(<<>>), p.arg).bytes

\* the number of bytes of the first n of the byte sequences encs
RECURSIVE LenUpTo(_, _)
LenUpTo(encs, n) == IF n = 0 THEN 0 ELSE LenUpTo(encs, n - 1) + Len(encs[n])

\* C15: for any sequence of values appended to one empty Vec by any mix of
\* put_u8, put_u16, put_u32, put_u64, put_unsigned and put_var_bytes, each
\* put only appends (the Vec is the concatenation of what each put writes
\* alone), and the matching gets in the same order return the values in
\* order, each advancing the cursor by the number of bytes its put appended,
\* and leave the cursor at the buffer length.  alone[i] is what put i writes
\* alone and end[i] the number of bytes of the first i puts.
C15_Sequential ==
    \A alone \in {[i \in DOMAIN puts |-> Alone(puts[i])]} :
    \A end \in {[i \in 0..Len(puts) |-> LenUpTo(alone, i)]} :
        /\ phase # "aborted"
        /\ Len(buf) = end[Len(puts)]
        /\ \A i \in DOMAIN puts : SubSeq(buf, end[i - 1] + 1, end[i]) = alone[i]
        /\ \A i \in DOMAIN gets :
               /\ gets[i].res.tag = "Ok"
               /\ gets[i].res.val = puts[i].arg
               /\ gets[i].at = end[i - 1]
               /\ gets[i].res.pos = end[i]
        /\ (phase = "source" /\ Len(gets) = Len(puts)) => position = Len(buf)

\* a 64-byte array, 2^64 - 1 and the byte 03 were written and read back
C15_Witness ==
    /\ Len(puts) = 3 /\ Len(gets) = 3
    /\ puts[1].op = "put_var_bytes" /\ Len(puts[1].arg) = 64
    /\ puts[2].op = "put_unsigned" /\ puts[2].arg = Ones(64, 64)
    /\ puts[3].op = "put_u8" /\ puts[3].arg = 3
    /\ gets[3].res.tag = "Ok" /\ gets[3].res.val = 3
    /\ position = 76 /\ Len(buf) = 76

====
